---- MODULE Spec2Model ----
(***************************************************************************)
(* Knowledge distillation notebook (knowledge-distillation-classical.ipynb) *)
(*                                                                         *)
(* The model covers the Distiller class (compile, train_step, test_step),  *)
(* statement by statement, and the notebook's cells in the order they run. *)
(* Two specifications share the variables and the step actions:            *)
(*   Spec           the notebook: load, teacher fit/evaluate, distiller    *)
(*                  fit/evaluate, student_scratch fit/evaluate;            *)
(*   SpecDistiller  a compiled Distiller called by any caller: any         *)
(*                  sequence of train_step / test_step on any batches.     *)
(*                                                                         *)
(* Abstractions of the framework (Keras / TensorFlow), which is not code   *)
(* of the repository:                                                      *)
(*   - a network is one trainable scalar per class; a batch is one image   *)
(*     of one pixel with its label; logits[c] = w[c] * pixel;              *)
(*   - numbers are exact: a pixel and alpha are rationals [num, den];      *)
(*     logits / temperature is held in fixed point with ExpUnit steps per  *)
(*     unit, and the exponential of the softmax has base 2 per step;       *)
(*   - the loss objects are integer valued (see student_loss_fn,           *)
(*     distillation_loss_fn);                                              *)
(*   - a gradient is its direction (a sign per variable) and an optimizer  *)
(*     step moves each variable one unit against it.                       *)
(***************************************************************************)
EXTENDS Integers, Sequences, FiniteSets, TLC

VARIABLES
    pc,                   \* notebook: index of the running statement of Program
    epoch, step,          \* fit / evaluate loop counters of the running statement
    x_train, y_train,     \* loaded training images and labels
    x_test, y_test,       \* loaded test images and labels
    weights,              \* the parameters of teacher, student, student_scratch
    optimizer,            \* per compiled model: optimizer.iterations (-1: not compiled)
    metrics,              \* per compiled model: SparseCategoricalAccuracy [total, count]
    alpha, temperature,   \* Distiller attributes set by compile
    kind, stage,          \* running Distiller step ("none"/"train"/"test"), statement index
    x, y,                 \* the step's unpacked batch
    teacher_predictions, student_predictions,
    soft_teacher, soft_student,
    student_loss, distillation_loss, loss,
    trainable_vars, gradients,
    results,              \* the dict the step returns
    calls,                \* framework calls made by the running step, in order
    error,                \* the exception that left the step ("" when none)
    ncalls                \* number of step calls made so far

dataVars  == <<x_train, y_train, x_test, y_test>>
loopVars  == <<pc, epoch, step>>
hyperVars == <<alpha, temperature>>
localVars == <<x, y, teacher_predictions, student_predictions, soft_teacher,
               soft_student, student_loss, distillation_loss, loss,
               trainable_vars, gradients, results>>
stepVars  == <<kind, stage, calls, error, ncalls>>
vars == <<pc, epoch, step, x_train, y_train, x_test, y_test, weights, optimizer,
          metrics, alpha, temperature, kind, stage, x, y, teacher_predictions,
          student_predictions, soft_teacher, soft_student, student_loss,
          distillation_loss, loss, trainable_vars, gradients, results, calls,
          error, ncalls>>

----------------------------------------------------------------------------
(* Bounds of the model *)

NClasses == 2        \* classes of the output layer (Dense(10) in the notebook)
NTrainBatches == 1   \* batches of the training set per epoch
NTestBatches == 1    \* batches of the test set
MaxCalls == 2        \* step calls a caller of the Distiller makes (SpecDistiller)

(* Program constants *)

PixelMax == 255         \* x.astype('float32') / 255.0
TeacherEpochs == 5      \* teacher.fit(..., epochs=5)
DistillEpochs == 3      \* distiller.fit(..., epochs=3)
ScratchEpochs == 3      \* student_scratch.fit(..., epochs=3)
DriverTemperature == 10 \* distiller.compile(..., temperature=10)
DefaultTemperature == 3 \* def compile(..., temperature=3)

Classes == 0 .. (NClasses - 1)
Models == {"teacher", "student", "student_scratch"}
Compiled == {"teacher", "distiller", "student_scratch"}

\* alpha=0.1 in the notebook's compile call and as compile's default
DriverAlpha == [num |-> 1, den |-> 10]
DefaultAlpha == [num |-> 1, den |-> 10]

\* raw uint8 intensities the loader may deliver
RawPixels == {0, 128, PixelMax}

\* hyperparameters and parameters a caller of the Distiller may bring
Alphas == {[num |-> 0, den |-> 1], [num |-> 1, den |-> 10], [num |-> 1, den |-> 1]}
Temps == {1, 2}
InitWeights == {[c \in Classes |-> 0]}
TeacherWeights == {[c \in Classes |-> IF c = 0 THEN 2 ELSE 0],
                   [c \in Classes |-> IF c = 0 THEN 0 ELSE 1]}

\* fixed-point steps per unit of logits / temperature: exact for every T in Temps
ExpUnit == CHOOSE u \in 1 .. 64 :
             /\ \A T \in Temps : u % T = 0
             /\ \A v \in 1 .. (u - 1) : \E T \in Temps : v % T # 0

----------------------------------------------------------------------------
(* Arithmetic helpers *)

RECURSIVE SumTo(_, _)
SumTo(f, n) == IF n < 0 THEN 0 ELSE f[n] + SumTo(f, n - 1)
SumOver(f) == SumTo(f, NClasses - 1)

MaxOf(f) == CHOOSE m \in {f[c] : c \in Classes} : \A c \in Classes : f[c] <= m
MinOf(f) == CHOOSE m \in {f[c] : c \in Classes} : \A c \in Classes : m <= f[c]

Sign(n) == IF n > 0 THEN 1 ELSE IF n < 0 THEN -1 ELSE 0

\* rationals [num, den] with den > 0
RLe(a, b) == a.num * b.den <= b.num * a.den
REq(a, b) == a.num * b.den = b.num * a.den
RInt(n) == [num |-> n, den |-> 1]
RSub(a, b) == [num |-> a.num * b.den - b.num * a.den, den |-> a.den * b.den]
RAdd(a, b) == [num |-> a.num * b.den + b.num * a.den, den |-> a.den * b.den]
RMul(a, b) == [num |-> a.num * b.num, den |-> a.den * b.den]

ZeroVec == [c \in Classes |-> 0]
NoDist == [c \in Classes |-> [num |-> 0, den |-> 1]]

----------------------------------------------------------------------------
(* The framework: tensors, layers, losses, metrics, optimizer *)

\* the cast without the division
Normalize_Unscaled(raw) == [num |-> raw, den |-> 1]

\* x.astype('float32') / 255.0 : the raw intensity over PixelMax, exactly
Normalize(raw) == [num |-> raw, den |-> PixelMax]

\* model(x): the logits of one image, one integer score per class (rounded down)
Forward(m, px) == [c \in Classes |-> (weights[m][c] * px.num) \div px.den]

\* the logits multiplied by the temperature
Soften_Multiply(z, T) == [c \in Classes |-> z[c] * ExpUnit * T]

\* predictions / temperature, in fixed point with ExpUnit steps per unit
Soften(z, T) == [c \in Classes |-> (z[c] * ExpUnit) \div T]

\* tf.nn.softmax(v, axis=1): exponentials (base 2 per fixed-point step, shifted
\* by the least score) over their sum
Softmax(v) ==
    LET m == MinOf(v)
        e == [c \in Classes |-> 2 ^ (v[c] - m)]
    IN  [c \in Classes |-> [num |-> e[c], den |-> SumOver(e)]]

\* keras.losses.SparseCategoricalCrossentropy(from_logits=True) on one image: the
\* distance of the true class's logit below the largest logit (the cross entropy
\* lies between this and this plus log NClasses)
student_loss_fn(y_true, y_pred) == MaxOf(y_pred) - y_pred[y_true]

\* keras.losses.KLDivergence() on two distributions: zero exactly when they are
\* equal, and counted here as the number of classes on which they differ
distillation_loss_fn(p, q) ==
    Cardinality({c \in Classes : ~REq(p[c], q[c])})

\* tf.argmax: the first class of largest score
ArgMax(z) == CHOOSE c \in Classes :
               /\ z[c] = MaxOf(z)
               /\ \A d \in Classes : z[d] = MaxOf(z) => c <= d

\* SparseCategoricalAccuracy.update_state(y_true, y_pred)
UpdateState(m, y_true, y_pred) ==
    [total |-> m.total + (IF ArgMax(y_pred) = y_true THEN 1 ELSE 0),
     count |-> m.count + 1]

\* SparseCategoricalAccuracy.result()
MetricResult(m) == [num |-> m.total, den |-> IF m.count = 0 THEN 1 ELSE m.count]

NoMetric == [total |-> 0, count |-> 0]
MetricNames == {"sparse_categorical_accuracy"}

\* model.trainable_variables, in layer order
VarsOf(m) == [i \in 1 .. NClasses |-> <<m, i - 1>>]

\* zip(gradients, variables)
Zip(gs, vs) ==
    [i \in 1 .. (IF Len(gs) < Len(vs) THEN Len(gs) ELSE Len(vs)) |-> <<gs[i], vs[i]>>]

RECURSIVE GradFor(_, _, _)
GradFor(pairs, v, n) ==
    IF n = 0 THEN 0
    ELSE (IF pairs[n][2] = v /\ pairs[n][1].ok THEN pairs[n][1].g ELSE 0)
         + GradFor(pairs, v, n - 1)

\* optimizer.apply_gradients(pairs): one step of the optimizer named opt; each
\* variable of a pair with a gradient moves one unit against its direction,
\* every other variable is left alone
AppliedWeights(pairs) ==
    [m \in Models |-> [c \in Classes |->
        weights[m][c] - GradFor(pairs, <<m, c>>, Len(pairs))]]

\* direction of d(cross entropy)/d(logit c): softmax(c) - [c = label]
CESign(c, label) == IF c = label THEN -1 ELSE 1

\* direction of d(KL(p || q))/d(student logit c): q[c] - p[c]
KLSign(c, p, q) == Sign(q[c].num * p[c].den - p[c].num * q[c].den)

\* Model.train_step of Keras (teacher.fit, student_scratch.fit): forward pass,
\* loss, gradients of the model's own variables, one optimizer step, metrics
KerasGradients(m, px, label) ==
    [i \in 1 .. NClasses |->
        [ok |-> TRUE, g |-> CESign(i - 1, label) * Sign(px.num)]]

----------------------------------------------------------------------------
(* class Distiller *)

\* train_step with the optimizer applied a second time
TrainStepBody_ApplyTwice ==
    <<"teacher_forward", "student_forward", "student_loss",
      "distillation_loss", "total_loss", "trainable_variables",
      "gradient", "apply_gradients", "apply_gradients", "update_state", "return">>

\* the statements of train_step and test_step, in program order
TrainStepBody == <<"teacher_forward", "student_forward", "student_loss",
                   "distillation_loss", "total_loss", "trainable_variables",
                   "gradient", "apply_gradients", "update_state", "return">>
\* test_step with the statements of train_step
TestStepBody_Train ==
    <<"teacher_forward", "student_forward", "student_loss",
      "distillation_loss", "total_loss", "trainable_variables",
      "gradient", "apply_gradients", "update_state", "return">>

TestStepBody == <<"student_forward", "student_loss", "update_state", "return">>

StepBody(k) == IF k = "train" THEN TrainStepBody
               ELSE IF k = "test" THEN TestStepBody ELSE << >>

\* no step is running: none was called yet, or the last one returned
Idle == stage > Len(StepBody(kind))
Returned == kind # "none" /\ Idle
Running == ~Idle /\ error = ""
At(stmt) == Running /\ StepBody(kind)[stage] = stmt

Call(op, args) == [op |-> op, args |-> args]
Count(op) == Cardinality({i \in 1 .. Len(calls) : calls[i].op = op})

\* the statement at `stage` has run
Advance(op, args) ==
    /\ stage' = stage + 1
    /\ calls' = Append(calls, Call(op, args))
    /\ UNCHANGED <<kind, error, ncalls>>

\* compile that drops its arguments: the attributes hold the signature's defaults
CompiledHyper_Defaults(a, T) ==
    [alpha |-> DefaultAlpha, temperature |-> DefaultTemperature]

\* Distiller.compile: what the attributes hold after compile(alpha=a, temperature=T)
CompiledHyper(a, T) == [alpha |-> a, temperature |-> T]

\* the weights of the two losses exchanged
TotalLoss_Swapped(a, sl, dl) ==
    RAdd(RMul(RSub(RInt(1), a), RInt(sl)), RMul(a, RInt(dl)))

\* self.alpha * student_loss + (1 - self.alpha) * distillation_loss
TotalLoss(a, sl, dl) ==
    RAdd(RMul(a, RInt(sl)), RMul(RSub(RInt(1), a), RInt(dl)))

\* the models whose forward pass is recorded by the GradientTape
TapeWatched == {"student"}

\* trainable_vars = self.student.trainable_variables
TrainableVars == VarsOf("student")

\* the gradients zipped with the teacher's variables
ApplyVars_Teacher == VarsOf("teacher")

\* the variables zipped with the gradients for the optimizer
ApplyVars == trainable_vars

\* the directions the gradient of the blended loss may have for student logit c
MixSigns(c) ==
    LET ce == CESign(c, y)
        kl == KLSign(c, soft_teacher, soft_student)
    IN  IF alpha.num = alpha.den THEN {ce}
        ELSE IF alpha.num = 0 THEN {kl}
        ELSE IF kl = 0 \/ kl = ce THEN {ce}
        ELSE {ce, kl}

\* tape.gradient(loss, vs): one entry per variable of vs, None (ok = FALSE) for a
\* variable the tape did not watch
TapeGradients(vs) ==
    {gs \in [1 .. Len(vs) -> [ok : BOOLEAN, g : {-1, 0, 1}]] :
        \A i \in 1 .. Len(vs) :
            IF vs[i][1] \in TapeWatched
            THEN gs[i].ok /\ \E s \in MixSigns(vs[i][2]) : gs[i].g = s * Sign(x.num)
            ELSE ~gs[i].ok /\ gs[i].g = 0}

\* the metrics fed the teacher's predictions
MetricArgs_Teacher == <<y, teacher_predictions>>

\* the arguments of self.compiled_metrics.update_state
MetricArgs == <<y, student_predictions>>

\* the dict a step returns
StepResults(k) ==
    LET ms == [n \in MetricNames |-> MetricResult(metrics["distiller"])]
        sl == ("student_loss" :> RInt(student_loss))
        dl == ("distillation_loss" :> RInt(distillation_loss))
    IN  IF k = "train" THEN ms @@ sl @@ dl ELSE ms @@ sl

\* x, y = data, at the entry of train_step (k = "train") or test_step (k = "test")
BeginStep(k, px, label) ==
    /\ kind' = k
    /\ stage' = 1
    /\ calls' = << >>
    /\ ncalls' = ncalls + 1
    /\ x' = px
    /\ y' = label
    /\ teacher_predictions' = ZeroVec
    /\ student_predictions' = ZeroVec
    /\ soft_teacher' = NoDist
    /\ soft_student' = NoDist
    /\ student_loss' = 0
    /\ distillation_loss' = 0
    /\ loss' = RInt(0)
    /\ trainable_vars' = << >>
    /\ gradients' = << >>
    /\ results' = << >>
    /\ UNCHANGED <<error, weights, optimizer, hyperVars, dataVars>>

\* teacher_predictions = self.teacher(x, training=False)
TeacherForward ==
    /\ At("teacher_forward")
    /\ teacher_predictions' = Forward("teacher", x)
    /\ Advance("teacher", <<x>>)
    /\ UNCHANGED <<x, y, student_predictions, soft_teacher, soft_student,
                   student_loss, distillation_loss, loss, trainable_vars,
                   gradients, results>>
    /\ UNCHANGED <<loopVars, dataVars, weights, optimizer, metrics, hyperVars>>

\* student_predictions = self.student(x, training=True)   (train_step)
\* y_prediction = self.student(x, training=False)         (test_step)
StudentForward ==
    /\ At("student_forward")
    /\ student_predictions' = Forward("student", x)
    /\ Advance("student", <<x>>)
    /\ UNCHANGED <<x, y, teacher_predictions, soft_teacher, soft_student,
                   student_loss, distillation_loss, loss, trainable_vars,
                   gradients, results>>
    /\ UNCHANGED <<loopVars, dataVars, weights, optimizer, metrics, hyperVars>>

\* student_loss = self.student_loss_fn(y, student_predictions)
StudentLoss ==
    /\ At("student_loss")
    /\ student_loss' = student_loss_fn(y, student_predictions)
    /\ Advance("student_loss_fn", <<y, student_predictions>>)
    /\ UNCHANGED <<x, y, teacher_predictions, student_predictions, soft_teacher,
                   soft_student, distillation_loss, loss, trainable_vars,
                   gradients, results>>
    /\ UNCHANGED <<loopVars, dataVars, weights, optimizer, metrics, hyperVars>>

\* distillation_loss = self.distillation_loss_fn(
\*     tf.nn.softmax(teacher_predictions / self.temperature, axis=1),
\*     tf.nn.softmax(student_predictions / self.temperature, axis=1))
DistillationLoss ==
    /\ At("distillation_loss")
    /\ soft_teacher' = Softmax(Soften(teacher_predictions, temperature))
    /\ soft_student' = Softmax(Soften(student_predictions, temperature))
    /\ distillation_loss' = distillation_loss_fn(soft_teacher', soft_student')
    /\ Advance("distillation_loss_fn", <<soft_teacher', soft_student'>>)
    /\ UNCHANGED <<x, y, teacher_predictions, student_predictions, student_loss,
                   loss, trainable_vars, gradients, results>>
    /\ UNCHANGED <<loopVars, dataVars, weights, optimizer, metrics, hyperVars>>

\* loss = self.alpha * student_loss + (1-self.alpha) * distillation_loss
ComputeLoss ==
    /\ At("total_loss")
    /\ loss' = TotalLoss(alpha, student_loss, distillation_loss)
    /\ Advance("blend", <<student_loss, distillation_loss>>)
    /\ UNCHANGED <<x, y, teacher_predictions, student_predictions, soft_teacher,
                   soft_student, student_loss, distillation_loss, trainable_vars,
                   gradients, results>>
    /\ UNCHANGED <<loopVars, dataVars, weights, optimizer, metrics, hyperVars>>

\* trainable_vars = self.student.trainable_variables
ReadTrainableVars ==
    /\ At("trainable_variables")
    /\ trainable_vars' = TrainableVars
    /\ Advance("trainable_variables", << >>)
    /\ UNCHANGED <<x, y, teacher_predictions, student_predictions, soft_teacher,
                   soft_student, student_loss, distillation_loss, loss,
                   gradients, results>>
    /\ UNCHANGED <<loopVars, dataVars, weights, optimizer, metrics, hyperVars>>

\* gradients = tape.gradient(loss, trainable_vars)
ComputeGradients ==
    /\ At("gradient")
    /\ \E gs \in TapeGradients(trainable_vars) : gradients' = gs
    /\ Advance("gradient", <<loss, trainable_vars>>)
    /\ UNCHANGED <<x, y, teacher_predictions, student_predictions, soft_teacher,
                   soft_student, student_loss, distillation_loss, loss,
                   trainable_vars, results>>
    /\ UNCHANGED <<loopVars, dataVars, weights, optimizer, metrics, hyperVars>>

\* self.optimizer.apply_gradients(zip(gradients, trainable_vars))
ApplyGradients ==
    /\ At("apply_gradients")
    /\ weights' = AppliedWeights(Zip(gradients, ApplyVars))
    /\ optimizer' = [optimizer EXCEPT !["distiller"] = @ + 1]
    /\ Advance("apply_gradients", Zip(gradients, ApplyVars))
    /\ UNCHANGED localVars
    /\ UNCHANGED <<loopVars, dataVars, metrics, hyperVars>>

\* self.compiled_metrics.update_state(y, student_predictions)
UpdateMetrics ==
    /\ At("update_state")
    /\ metrics' = [metrics EXCEPT
                     !["distiller"] = UpdateState(@, MetricArgs[1], MetricArgs[2])]
    /\ Advance("update_state", MetricArgs)
    /\ UNCHANGED localVars
    /\ UNCHANGED <<loopVars, dataVars, weights, optimizer, hyperVars>>

\* results = {m.name: m.result() for m in self.metrics}; results.update(...);
\* return results
ReturnResults ==
    /\ At("return")
    /\ results' = StepResults(kind)
    /\ stage' = stage + 1
    /\ UNCHANGED <<x, y, teacher_predictions, student_predictions, soft_teacher,
                   soft_student, student_loss, distillation_loss, loss,
                   trainable_vars, gradients>>
    /\ UNCHANGED <<kind, calls, error, ncalls>>
    /\ UNCHANGED <<loopVars, dataVars, weights, optimizer, metrics, hyperVars>>

\* the step started again after the exception
Propagate_Retry(stmt) ==
    /\ error' = stmt
    /\ stage' = 1
    /\ calls' = << >>
    /\ UNCHANGED <<kind, ncalls>>
    /\ UNCHANGED localVars
    /\ UNCHANGED <<loopVars, dataVars, weights, optimizer, metrics, hyperVars>>

\* an exception of the framework leaves the step: neither step has a try, so
\* nothing of the step runs after the statement that raised
Propagate(stmt) ==
    /\ error' = stmt
    /\ UNCHANGED <<kind, stage, calls, ncalls>>
    /\ UNCHANGED localVars
    /\ UNCHANGED <<loopVars, dataVars, weights, optimizer, metrics, hyperVars>>

\* the framework raises in the call the running statement makes
Raise ==
    /\ Running
    /\ StepBody(kind)[stage] # "return"
    /\ Propagate(StepBody(kind)[stage])

StepStatement ==
    \/ TeacherForward
    \/ StudentForward
    \/ StudentLoss
    \/ DistillationLoss
    \/ ComputeLoss
    \/ ReadTrainableVars
    \/ ComputeGradients
    \/ ApplyGradients
    \/ UpdateMetrics
    \/ ReturnResults
    \/ Raise

----------------------------------------------------------------------------
(* A compiled Distiller and its caller *)

Batches == {<<Normalize(r), l>> : r \in RawPixels, l \in Classes}

Blank ==
    /\ kind = "none"
    /\ stage = 1
    /\ calls = << >>
    /\ error = ""
    /\ ncalls = 0
    /\ x = Normalize(0)
    /\ y = 0
    /\ teacher_predictions = ZeroVec
    /\ student_predictions = ZeroVec
    /\ soft_teacher = NoDist
    /\ soft_student = NoDist
    /\ student_loss = 0
    /\ distillation_loss = 0
    /\ loss = RInt(0)
    /\ trainable_vars = << >>
    /\ gradients = << >>
    /\ results = << >>

\* Distiller(student, teacher) built on a trained teacher and compiled with any
\* alpha of Alphas and temperature of Temps
InitDistiller ==
    /\ pc = 0 /\ epoch = 0 /\ step = 0
    /\ x_train = << >> /\ y_train = << >> /\ x_test = << >> /\ y_test = << >>
    /\ \E t \in TeacherWeights, s \in InitWeights :
          weights = [m \in Models |-> IF m = "teacher" THEN t ELSE s]
    /\ optimizer = [m \in Compiled |-> IF m = "distiller" THEN 0 ELSE -1]
    /\ metrics = [m \in Compiled |-> NoMetric]
    /\ \E a \in Alphas, T \in Temps :
          /\ alpha = CompiledHyper(a, T).alpha
          /\ temperature = CompiledHyper(a, T).temperature
    /\ Blank

\* distiller.train_step((x, y)) called on any batch
CallTrainStep ==
    /\ pc = 0 /\ Idle /\ error = "" /\ ncalls < MaxCalls
    /\ \E b \in Batches : BeginStep("train", b[1], b[2])
    /\ UNCHANGED <<metrics, loopVars>>

\* distiller.test_step((x, y)) called on any batch
CallTestStep ==
    /\ pc = 0 /\ Idle /\ error = "" /\ ncalls < MaxCalls
    /\ \E b \in Batches : BeginStep("test", b[1], b[2])
    /\ UNCHANGED <<metrics, loopVars>>

NextDistiller ==
    \/ CallTrainStep
    \/ CallTestStep
    \/ StepStatement

SpecDistiller == InitDistiller /\ [][NextDistiller]_vars

----------------------------------------------------------------------------
(* The notebook *)

\* the distillation cell run before the teacher's cell
Program_DistillFirst ==
    <<"load_data",
      "distiller_compile", "distiller_fit", "distiller_evaluate",
      "teacher_compile", "teacher_fit", "teacher_evaluate",
      "scratch_compile", "scratch_fit", "scratch_evaluate">>

\* the statements of the notebook after the models are built, in cell order
Program == <<"load_data",
             "teacher_compile", "teacher_fit", "teacher_evaluate",
             "distiller_compile", "distiller_fit", "distiller_evaluate",
             "scratch_compile", "scratch_fit", "scratch_evaluate">>

Cell == IF pc \in 1 .. Len(Program) THEN Program[pc] ELSE "done"

NextCell ==
    /\ pc' = pc + 1
    /\ epoch' = 1
    /\ step' = 1

\* the loop counters after one more batch of a fit over `epochs` epochs; the
\* epoch passes `epochs` when the last batch of the last epoch was taken
NextBatch(epochs) ==
    IF step < NTrainBatches
    THEN epoch' = epoch /\ step' = step + 1
    ELSE epoch' = epoch + 1 /\ step' = 1

\* teacher, student = keras.Sequential([...]); student_scratch = clone_model(student):
\* three networks, each with freshly initialised parameters of its own
Init ==
    /\ pc = 1 /\ epoch = 1 /\ step = 1
    /\ x_train = << >> /\ y_train = << >> /\ x_test = << >> /\ y_test = << >>
    /\ weights \in [Models -> InitWeights]
    /\ optimizer = [m \in Compiled |-> -1]
    /\ metrics = [m \in Compiled |-> NoMetric]
    /\ alpha = RInt(0)
    /\ temperature = 0
    /\ Blank

\* the labels of the data set: the classes in turn
LabelOf(i) == i % NClasses

\* (x_train, y_train), (x_test, y_test) = keras.datasets.mnist.load_data();
\* x_train = x_train.astype('float32') / 255.0; likewise x_test
LoadData ==
    /\ Cell = "load_data"
    /\ \E raw \in [1 .. NTrainBatches -> RawPixels] :
          x_train' = [i \in 1 .. NTrainBatches |-> Normalize(raw[i])]
    /\ \E raw \in [1 .. NTestBatches -> RawPixels] :
          x_test' = [i \in 1 .. NTestBatches |-> Normalize(raw[i])]
    /\ y_train' = [i \in 1 .. NTrainBatches |-> LabelOf(i)]
    /\ y_test' = [i \in 1 .. NTestBatches |-> LabelOf(i + 1)]
    /\ NextCell
    /\ UNCHANGED <<weights, optimizer, metrics, hyperVars, stepVars>>
    /\ UNCHANGED localVars

ModelOf(cell) == IF cell \in {"teacher_compile", "teacher_fit", "teacher_evaluate"}
                 THEN "teacher" ELSE "student_scratch"
EpochsOf(cell) == IF cell = "teacher_fit" THEN TeacherEpochs ELSE ScratchEpochs

\* teacher.compile(optimizer=Adam(), loss=..., metrics=[...]) and the same call on
\* student_scratch
KerasCompile ==
    /\ Cell \in {"teacher_compile", "scratch_compile"}
    /\ optimizer' = [optimizer EXCEPT ![ModelOf(Cell)] = 0]
    /\ metrics' = [metrics EXCEPT ![ModelOf(Cell)] = NoMetric]
    /\ NextCell
    /\ UNCHANGED <<dataVars, weights, hyperVars, stepVars>>
    /\ UNCHANGED localVars

\* student_scratch bound to the student itself instead of a clone of it
KerasFitVars_Shared(m) == VarsOf(IF m = "student_scratch" THEN "student" ELSE m)

\* the variables one batch of model.fit hands to the optimizer
KerasFitVars(m) == VarsOf(m)

\* teacher.fit(x_train, y_train, epochs=5, ...), student_scratch.fit(...,
\* epochs=3, ...): one batch of Keras' own train_step; the metrics restart with
\* each epoch
KerasFitBatch ==
    /\ Cell \in {"teacher_fit", "scratch_fit"}
    /\ error = ""
    /\ LET m == ModelOf(Cell)
           gs == KerasGradients(m, x_train[step], y_train[step])
       IN  /\ weights' = AppliedWeights(Zip(gs, KerasFitVars(m)))
           /\ optimizer' = [optimizer EXCEPT ![m] = @ + 1]
           /\ metrics' = [metrics EXCEPT ![m] =
                 UpdateState(IF step = 1 THEN NoMetric ELSE @,
                             y_train[step], Forward(m, x_train[step]))]
    /\ IF step = NTrainBatches /\ epoch = EpochsOf(Cell)
       THEN NextCell
       ELSE pc' = pc /\ NextBatch(EpochsOf(Cell))
    /\ UNCHANGED <<dataVars, hyperVars, stepVars>>
    /\ UNCHANGED localVars

\* teacher.evaluate(x_test, y_test), student_scratch.evaluate(x_test, y_test):
\* one batch of Keras' own test_step
KerasEvaluateBatch ==
    /\ Cell \in {"teacher_evaluate", "scratch_evaluate"}
    /\ error = ""
    /\ LET m == ModelOf(Cell)
       IN  metrics' = [metrics EXCEPT ![m] =
                 UpdateState(IF step = 1 THEN NoMetric ELSE @,
                             y_test[step], Forward(m, x_test[step]))]
    /\ IF step = NTestBatches
       THEN NextCell
       ELSE pc' = pc /\ epoch' = epoch /\ step' = step + 1
    /\ UNCHANGED <<dataVars, weights, optimizer, hyperVars, stepVars>>
    /\ UNCHANGED localVars

\* distiller = Distiller(student=student, teacher=teacher);
\* distiller.compile(Adam(), metrics=[...], student_loss_fn=...,
\*                   distillation_loss_fn=..., alpha=0.1, temperature=10)
DistillerCompile ==
    /\ Cell = "distiller_compile"
    /\ alpha' = CompiledHyper(DriverAlpha, DriverTemperature).alpha
    /\ temperature' = CompiledHyper(DriverAlpha, DriverTemperature).temperature
    /\ optimizer' = [optimizer EXCEPT !["distiller"] = 0]
    /\ metrics' = [metrics EXCEPT !["distiller"] = NoMetric]
    /\ NextCell
    /\ UNCHANGED <<dataVars, weights, stepVars>>
    /\ UNCHANGED localVars

\* distiller.fit(x_train, y_train, epochs=3, ...): fit calls train_step on the
\* next batch; the metrics restart with each epoch
DistillerFitBatch ==
    /\ Cell = "distiller_fit"
    /\ Idle /\ error = ""
    /\ epoch <= DistillEpochs
    /\ BeginStep("train", x_train[step], y_train[step])
    /\ metrics' = IF step = 1 THEN [metrics EXCEPT !["distiller"] = NoMetric]
                  ELSE metrics
    /\ pc' = pc
    /\ NextBatch(DistillEpochs)

\* distiller.evaluate(x_test, y_test): evaluate calls test_step on the next batch
DistillerEvaluateBatch ==
    /\ Cell = "distiller_evaluate"
    /\ Idle /\ error = ""
    /\ step <= NTestBatches
    /\ BeginStep("test", x_test[step], y_test[step])
    /\ metrics' = IF step = 1 THEN [metrics EXCEPT !["distiller"] = NoMetric]
                  ELSE metrics
    /\ pc' = pc /\ epoch' = epoch /\ step' = step + 1

\* fit or evaluate of the distiller returns after its last batch
DistillerLoopEnd ==
    /\ \/ Cell = "distiller_fit" /\ epoch > DistillEpochs
       \/ Cell = "distiller_evaluate" /\ step > NTestBatches
    /\ Idle /\ error = ""
    /\ NextCell
    /\ UNCHANGED <<dataVars, weights, optimizer, metrics, hyperVars, stepVars>>
    /\ UNCHANGED localVars

Next ==
    \/ LoadData
    \/ KerasCompile
    \/ KerasFitBatch
    \/ KerasEvaluateBatch
    \/ DistillerCompile
    \/ DistillerFitBatch
    \/ DistillerEvaluateBatch
    \/ DistillerLoopEnd
    \/ StepStatement

Spec == Init /\ [][Next]_vars

----------------------------------------------------------------------------
(* Properties *)

Done(op) == Count(op) > 0
FirstCall(op) == CHOOSE i \in 1 .. Len(calls) : calls[i].op = op
StudentVars == {<<"student", c>> : c \in Classes}

\* C1: a train_step, on any batch and after any earlier train_step and test_step
\* calls, leaves the teacher's parameters as they were; of the parameters of the
\* three networks only the student's may change in it.
C1_TeacherFrozen ==
    [][kind' = "train" =>
          \A m \in Models \ {"student"} : weights'[m] = weights[m]]_vars

\* a later train_step has just taken an optimizer step that moved the student
C1_Witness ==
    /\ kind = "train" /\ At("update_state")
    /\ ncalls >= 2
    /\ optimizer["distiller"] >= 2
    /\ \E i \in 1 .. Len(gradients) : gradients[i].g # 0
    /\ weights["student"] # ZeroVec
    /\ weights["teacher"] # ZeroVec

\* C2: the loss handed to tape.gradient is alpha * student_loss + (1 - alpha) *
\* distillation_loss, with student_loss = student_loss_fn(y, student output) and
\* distillation_loss = distillation_loss_fn(softened teacher output, softened
\* student output); with alpha = 1 it is the student loss, with alpha = 0 the
\* distillation loss.
C2_BlendedLoss ==
    (kind = "train" /\ Done("blend")) =>
        /\ student_loss = student_loss_fn(y, student_predictions)
        /\ distillation_loss = distillation_loss_fn(soft_teacher, soft_student)
        /\ loss.den > 0
        /\ loss.num * alpha.den =
              loss.den * (alpha.num * student_loss
                          + (alpha.den - alpha.num) * distillation_loss)
        /\ alpha.num = alpha.den => loss.num = student_loss * loss.den
        /\ alpha.num = 0 => loss.num = distillation_loss * loss.den
        /\ Done("gradient") => calls[FirstCall("gradient")].args[1] = loss

\* a blend of two different, non-zero losses with a weight strictly between 0 and 1
C2_Witness ==
    /\ kind = "train" /\ Done("gradient")
    /\ 0 < alpha.num /\ alpha.num < alpha.den
    /\ student_loss > 0 /\ distillation_loss > 0
    /\ student_loss # distillation_loss

\* what the calls of a train_step show of its optimizer step
C3_StepInv ==
    /\ kind = "train" => Count("apply_gradients") <= 1
    /\ (kind = "train" /\ Returned) => Count("apply_gradients") = 1
    /\ (kind = "train" /\ Done("apply_gradients")) =>
          LET i == FirstCall("apply_gradients")
              pairs == calls[i].args
          IN  /\ \E j \in 1 .. (i - 1) : calls[j] = Call("teacher", <<x>>)
              /\ \E j \in 1 .. (i - 1) : calls[j] = Call("student", <<x>>)
              /\ \E j \in 1 .. (i - 1) : calls[j].op = "blend"
              /\ \E j \in 1 .. (i - 1) :
                    calls[j] = Call("gradient", <<loss, trainable_vars>>)
              /\ Len(pairs) = NClasses
              /\ {pairs[k][2] : k \in 1 .. Len(pairs)} = StudentVars
              /\ \A k \in 1 .. Len(pairs) :
                    pairs[k][1] = gradients[k] /\ pairs[k][1].ok

\* C3: a train_step takes exactly one optimizer step, after the teacher forward
\* pass, the student forward pass and the blended loss of its own batch; the
\* gradients given to the optimizer are paired one to one with the student's
\* trainable variables and with no other variable.
C3_OneOptimizerStep ==
    /\ []C3_StepInv
    /\ [][optimizer' # optimizer =>
            /\ kind = "train" /\ kind' = "train"
            /\ optimizer' = [optimizer EXCEPT !["distiller"] = @ + 1]
            /\ Count("apply_gradients") = 0
            /\ Count("apply_gradients")' = 1]_vars

\* the second train_step of a caller has returned after its one optimizer step
C3_Witness ==
    /\ kind = "train" /\ Returned
    /\ optimizer["distiller"] = 2
    /\ Count("apply_gradients") = 1
    /\ \E i \in 1 .. Len(gradients) : gradients[i].g # 0

\* the calls a test_step does not make, and what a train_step computes from
C4_TestStepInv ==
    /\ kind = "test" =>
          /\ Count("teacher") = 0
          /\ Count("gradient") = 0
          /\ Count("apply_gradients") = 0
    /\ (kind = "train" /\ ~Done("apply_gradients")) =>
          /\ Done("teacher") => teacher_predictions = Forward("teacher", x)
          /\ Done("student") => student_predictions = Forward("student", x)

C5_HyperInv ==
    kind = "train" =>
        /\ alpha.den > 0 /\ 0 <= alpha.num /\ alpha.num <= alpha.den
        /\ temperature > 0
        /\ alpha = DriverAlpha
        /\ temperature = DriverTemperature

\* C5: whenever a Distiller train_step runs in the notebook, alpha lies in [0,1]
\* and temperature is positive, both hold the values given to compile, and no
\* train_step or test_step changes them.
C5_Hyperparameters ==
    /\ []C5_HyperInv
    /\ [][kind' # "none" => UNCHANGED <<alpha, temperature>>]_vars

\* the last train_step of distiller.fit has returned
C5_Witness ==
    /\ Cell = "distiller_fit" /\ epoch > DistillEpochs
    /\ kind = "train" /\ Returned
    /\ optimizer["distiller"] = DistillEpochs * NTrainBatches
    /\ alpha = DriverAlpha /\ temperature = DriverTemperature

\* the teacher's fit precedes every step of the distiller
C6_TeacherInv ==
    kind # "none" =>
        /\ optimizer["teacher"] = TeacherEpochs * NTrainBatches
        /\ \E i \in 1 .. (pc - 1) : i <= Len(Program) /\ Program[i] = "teacher_fit"

\* C6: in the notebook no Distiller train_step runs before the teacher's own
\* 5-epoch fit has completed, and from the first distillation step on the
\* teacher's parameters never change (distillation, evaluation, from-scratch run).
C6_TeacherPretrained ==
    /\ []C6_TeacherInv
    /\ [][kind' # "none" => weights'["teacher"] = weights["teacher"]]_vars

\* the notebook has finished with a teacher its own fit has moved
C6_Witness ==
    /\ Cell = "done"
    /\ weights["teacher"] # ZeroVec
    /\ optimizer["distiller"] = DistillEpochs * NTrainBatches
    /\ optimizer["student_scratch"] = ScratchEpochs * NTrainBatches

\* the distribution of logits z softened at temperature T
Softened(z, T) == Softmax(Soften(z, T))

\* p is the softmax of z / T: its entries sum to one, and the ratio of two entries
\* is the exponential of the difference of the two logits over T
IsSoftmaxOver(p, z, T) ==
    /\ \A c \in Classes : p[c].den > 0 /\ p[c].num > 0
    /\ \A c, d \in Classes : p[c].den = p[d].den
    /\ SumOver([c \in Classes |-> p[c].num]) = p[0].den
    /\ \A c, d \in Classes :
          z[c] >= z[d] =>
             /\ ((z[c] - z[d]) * ExpUnit) % T = 0
             /\ p[c].num = p[d].num * 2 ^ (((z[c] - z[d]) * ExpUnit) \div T)

LargestOf(p) == CHOOSE a \in {p[c] : c \in Classes} : \A c \in Classes : RLe(p[c], a)
SmallestOf(p) == CHOOSE a \in {p[c] : c \in Classes} : \A c \in Classes : RLe(a, p[c])

\* the distribution of z at T2 is at least as flat as at T1
AtLeastAsFlat(z, T1, T2) ==
    /\ RLe(LargestOf(Softened(z, T2)), LargestOf(Softened(z, T1)))
    /\ RLe(SmallestOf(Softened(z, T1)), SmallestOf(Softened(z, T2)))

\* C7: the distillation loss is computed on the softmax over the classes of the
\* teacher logits and of the student logits, each divided by the same
\* temperature; and for the logits of any step and temperatures T1 < T2 the
\* softened distribution at T2 is at least as flat as at T1 (largest probability
\* no larger, smallest no smaller).
C7_Softened ==
    (kind = "train" /\ Done("distillation_loss_fn")) =>
        /\ IsSoftmaxOver(soft_teacher, teacher_predictions, temperature)
        /\ IsSoftmaxOver(soft_student, student_predictions, temperature)
        /\ calls[FirstCall("distillation_loss_fn")].args
              = <<soft_teacher, soft_student>>
        /\ \A T1, T2 \in Temps :
              T1 < T2 =>
                 /\ AtLeastAsFlat(teacher_predictions, T1, T2)
                 /\ AtLeastAsFlat(student_predictions, T1, T2)

\* a step at the larger temperature whose teacher and student logits are not
\* uniform, so that softening strictly flattens both distributions
C7_Witness ==
    /\ kind = "train" /\ Done("distillation_loss_fn")
    /\ \E T1 \in Temps : T1 < temperature
    /\ MaxOf(teacher_predictions) > MinOf(teacher_predictions)
    /\ MaxOf(student_predictions) > MinOf(student_predictions)
    /\ \E T1 \in Temps :
          /\ T1 < temperature
          /\ ~RLe(LargestOf(Softened(teacher_predictions, T1)), LargestOf(soft_teacher))
          /\ ~RLe(SmallestOf(soft_student), SmallestOf(Softened(student_predictions, T1)))

\* a raw intensity 0..255 over 255
InUnitInterval(px) ==
    /\ px.den = PixelMax
    /\ px.num \in 0 .. PixelMax
    /\ 0 <= px.num /\ px.num <= px.den

\* the loaded tensors hold normalised pixels, one image and label per batch
C8_DataInv ==
    /\ \A i \in DOMAIN x_train : InUnitInterval(x_train[i])
    /\ \A i \in DOMAIN x_test : InUnitInterval(x_test[i])
    /\ pc > 1 =>
          /\ DOMAIN x_train = 1 .. NTrainBatches /\ DOMAIN y_train = 1 .. NTrainBatches
          /\ DOMAIN x_test = 1 .. NTestBatches /\ DOMAIN y_test = 1 .. NTestBatches

\* C8: after loading, every pixel of the training and of the test images is a raw
\* intensity 0..255 over 255, so lies in [0,1]; and no later statement of the
\* notebook (fit or evaluate of the teacher, the distiller or student_scratch)
\* changes the loaded images or labels.
C8_DataNormalizedImmutable ==
    /\ []C8_DataInv
    /\ [][pc > 1 => UNCHANGED <<x_train, y_train, x_test, y_test>>]_vars

\* the notebook has finished on data that holds a full and a middle intensity
C8_Witness ==
    /\ Cell = "done"
    /\ \E i \in DOMAIN x_train : x_train[i].num = PixelMax
    /\ \E i \in DOMAIN x_test : x_test[i].num \notin {0, PixelMax}
    /\ weights["student"] # ZeroVec
    /\ weights["student_scratch"] # ZeroVec

\* C9: an exception raised by a forward pass, a loss, the gradient, the optimizer
\* or the metrics in a train_step or test_step leaves the step at the statement
\* that raised: the step is not started again, nothing is rolled back, and no
\* statement of the step (no further update of the student) runs afterwards.
C9_NoRetryNoRollback ==
    /\ [][error' # error =>
            /\ error = ""
            /\ error' = StepBody(kind)[stage]
            /\ UNCHANGED <<kind, stage, calls, ncalls, weights, optimizer, metrics>>]_vars
    /\ [][error # "" => UNCHANGED vars]_vars

\* update_state raised after the optimizer step of a train_step had moved the student
C9_Witness ==
    /\ kind = "train"
    /\ error = "update_state"
    /\ Done("apply_gradients")
    /\ optimizer["distiller"] = 1
    /\ weights["student"] # ZeroVec

\* the metric update of a step and the dict it returns
C10_MetricsInv ==
    /\ kind # "none" => Count("update_state") <= 1
    /\ Done("update_state") =>
          calls[FirstCall("update_state")].args = <<y, student_predictions>>
    /\ Returned =>
          /\ Count("update_state") = 1
          /\ DOMAIN results =
                MetricNames \cup {"student_loss"}
                \cup (IF kind = "train" THEN {"distillation_loss"} ELSE {})
          /\ results["student_loss"] = RInt(student_loss)
          /\ \A n \in MetricNames : results[n] = MetricResult(metrics["distiller"])

\* C10: train_step and test_step each update the compiled metrics exactly once,
\* with the true labels and the student's predictions of the batch; the returned
\* dict holds every compiled metric and 'student_loss', and holds
\* 'distillation_loss' exactly when the step is a train_step.
C10_MetricsOncePerStep ==
    /\ []C10_MetricsInv
    /\ [][metrics' # metrics =>
            /\ kind' # "none"
            /\ Count("update_state") = 0 /\ Count("update_state")' = 1
            /\ metrics' = [metrics EXCEPT !["distiller"] =
                             UpdateState(@, y, student_predictions)]
            /\ calls[FirstCall("student")] = Call("student", <<x>>)]_vars

\* a train_step has returned whose teacher and student disagree on the class,
\* after an earlier step updated the metrics too
C10_Witness ==
    /\ kind = "train" /\ Returned
    /\ metrics["distiller"].count = 2
    /\ ArgMax(teacher_predictions) # ArgMax(student_predictions)
    /\ "distillation_loss" \in DOMAIN results

\* student_scratch holds the parameters clone_model gave it until its own fit
C11_ScratchInv ==
    /\ DOMAIN weights = Models
    /\ optimizer["student_scratch"] <= 0 => weights["student_scratch"] \in InitWeights
    /\ (optimizer["teacher"] <= 0 /\ optimizer["distiller"] <= 0
        /\ optimizer["student_scratch"] <= 0) =>
          \A m \in Models : weights[m] \in InitWeights

\* C11: student_scratch exists with parameters of its own before any training
\* step runs; no train_step or test_step of the distiller (nor the teacher's
\* fit) changes them; and the from-scratch fit and evaluate change neither the
\* distilled student's nor the teacher's parameters.
C11_ScratchIndependent ==
    /\ []C11_ScratchInv
    /\ [][(Cell \in {"distiller_compile", "distiller_fit", "distiller_evaluate"}) =>
            weights'["student_scratch"] = weights["student_scratch"]]_vars
    /\ [][(Cell \in {"scratch_compile", "scratch_fit", "scratch_evaluate"}) =>
            /\ weights'["student"] = weights["student"]
            /\ weights'["teacher"] = weights["teacher"]]_vars

\* the notebook has finished and the teacher, the distilled student and the
\* from-scratch student have each been moved by their own training run
C11_Witness ==
    /\ Cell = "done"
    /\ optimizer["distiller"] = DistillEpochs * NTrainBatches
    /\ optimizer["student_scratch"] = ScratchEpochs * NTrainBatches
    /\ weights["student"] # ZeroVec
    /\ weights["student_scratch"] # ZeroVec
    /\ weights["teacher"] # ZeroVec
====
